---- MODULE Spec2Model ----
(***************************************************************************)
(* Model of lambda_function.py: the tag-compliance report Lambda.          *)
(*                                                                         *)
(* Encoding of Python values:                                              *)
(*   str            a TLA+ string                                          *)
(*   None           the reserved string NoneVal (no str of the model       *)
(*                  equals it)                                             *)
(*   list           a sequence                                             *)
(*   dict           a function whose domain is the set of its keys         *)
(*   a call result  [raised |-> TRUE] when the call raises, otherwise      *)
(*                  [raised |-> FALSE, value |-> v]                        *)
(*   a "Tags"/"Properties" value, whose Python type the code never tests,  *)
(*                  [kind |-> "list", val |-> <<...>>],                    *)
(*                  [kind |-> "dict", val |-> [k |-> v]] or                *)
(*                  [kind |-> "None"]                                      *)
(***************************************************************************)
EXTENDS Integers, Sequences, FiniteSets, TLC

VARIABLES
    pc,             \* position of the running entry point
    ri,             \* index into REGIONS of the region being processed
    pageNo,         \* search pages already received for the current region
    view_arn,       \* view_arn of the current region (line 61)
    more,           \* the last search page carried a NextToken
    pending,        \* resources of the current page not yet processed
    all_resources,  \* fetch_resources_from_regions: all_resources
    resources,      \* lambda_handler: resources
    categorized,    \* lambda_handler: categorized
    excel_report,   \* lambda_handler: excel_report (the workbook's sheets)
    bucket,         \* objects stored in BUCKET_NAME
    calls,          \* remote API calls issued so far, in order
    log,            \* messages printed so far, in order
    trace,          \* what discovery and the audit trail answered, per resource
    failed,         \* the exception that ended fetch and the index of the
                    \* region it was raised in; region 0 if none
    tagInput,       \* argument of evaluate_tag_status (entry point "tags")
    tagResult,      \* its result
    groupInput,     \* argument of categorize_by_region_with_tags ("group")
    groupResult     \* its result

vars == <<pc, ri, pageNo, view_arn, more, pending, all_resources, resources,
          categorized, excel_report, bucket, calls, log, trace, failed,
          tagInput, tagResult, groupInput, groupResult>>

pipelineVars == <<ri, pageNo, view_arn, more, pending, all_resources, resources,
                  categorized, excel_report, bucket, calls, log, trace, failed>>

-----------------------------------------------------------------------------
(* Module-level configuration, lines 7-12 *)

REQUIRED_TAGS == <<"DeletionDate", "vendor", "owner", "purpose">>

REGIONS == <<"ap-northeast-1", "ap-south-1">>

BUCKET_NAME == "vb-auto-tag-check-and-compliance-report-bucket"

QUERY_FILTER == "-NOT (tagKey:vendor OR tagKey:owner OR tagKey:purpose OR tagKey:DeletionDate)"

-----------------------------------------------------------------------------
(* Bounds of the model *)

MaxPages == 1       \* pages the paginator delivers per region; a further
                    \* request, when the last page carried a token, raises
MaxResources == 2   \* resources discovered in one run
MaxTags == 2        \* entries of a wrapped tag list handed to the evaluator
MaxRecords == 3     \* records handed to the grouper

-----------------------------------------------------------------------------
(* Python helpers *)

NoneVal == "<None>"

Raised == [raised |-> TRUE]

Return(v) == [raised |-> FALSE, value |-> v]

Range(s) == {s[i] : i \in DOMAIN s}

\* sub in s, for two str
StrContains(s, sub) ==
    \E i \in 1..(Len(s) - Len(sub) + 1) : SubSeq(s, i, i + Len(sub) - 1) = sub

\* s.split(d)[-1] for a one-character d: what follows the last d, or s itself
LastSegment(s, d) ==
    LET hits == {i \in 1..Len(s) : SubSeq(s, i, i) = d}
    IN  IF hits = {} THEN s
        ELSE LET last == CHOOSE i \in hits : \A j \in hits : j <= i
             IN  SubSeq(s, last + 1, Len(s))

\* dict.get(key, default)
Get(d, key, default) == IF key \in DOMAIN d THEN d[key] ELSE default

\* str(x) at line 84: of a datetime its ISO rendering, of a str the str itself
Str(x) ==
    CASE x = "datetime(2026,10,1,12,0,tzinfo=utc)" -> "2026-10-01 12:00:00+00:00"
      [] OTHER -> x

-----------------------------------------------------------------------------
(* evaluate_tag_status, lines 97-107 *)

\* resource.get("Tags", [])
TagsOf(resource) == Get(resource, "Tags", [kind |-> "list", val |-> <<>>])

\* The condition of the comprehension at line 99 for the element t of a list:
\* "Data" in t and "Key" in t["Data"], t and t["Data"] being dicts.
WrapperKept(t) == "Data" \in DOMAIN t /\ "Key" \in DOMAIN t["Data"]

\* The comprehension at line 99 raises: iterating None (TypeError), a kept
\* wrapper without "Value" (KeyError), or, iterating a flat mapping, a key
\* string that contains "Data" and is then indexed by "Data" (TypeError).
TagKeysRaises(tags) ==
    CASE tags.kind = "None" -> TRUE
      [] tags.kind = "list" ->
            \E i \in DOMAIN tags.val :
                WrapperKept(tags.val[i]) /\ "Value" \notin DOMAIN tags.val[i]["Data"]
      [] tags.kind = "dict" ->
            \E k \in DOMAIN tags.val : StrContains(k, "Data")

\* tag_keys of line 99 when it does not raise; a later duplicate key wins.
TagKeys(tags) ==
    IF tags.kind = "list"
    THEN LET kept == {i \in DOMAIN tags.val : WrapperKept(tags.val[i])}
             keys == {tags.val[i]["Data"]["Key"] : i \in kept}
             lastOf(k) == CHOOSE i \in kept :
                             /\ tags.val[i]["Data"]["Key"] = k
                             /\ \A j \in kept :
                                   tags.val[j]["Data"]["Key"] = k => j <= i
         IN  [k \in keys |-> tags.val[lastOf(k)]["Data"]["Value"]]
    ELSE <<>>   \* a flat mapping: every key is a str without "Data", none kept

\* the truth value of a tag value: a non-empty str
Truthy(v) == v # "" /\ v # NoneVal

\* lines 101-105
TagVerdict(tag_keys) ==
    [tag \in Range(REQUIRED_TAGS) |->
        IF tag \in DOMAIN tag_keys /\ Truthy(tag_keys[tag])
        THEN "Present" ELSE "Missing"]

evaluate_tag_status(resource) ==
    IF TagKeysRaises(TagsOf(resource)) THEN Raised
    ELSE Return(TagVerdict(TagKeys(TagsOf(resource))))

-----------------------------------------------------------------------------
(* categorize_by_region_with_tags, lines 111-134.  The insertion-ordered   *)
(* dict `categorized` is a sequence of [region, rows] entries.             *)

\* line 114
RegionOf(res) == Get(res, "Region", "unknown")

\* lines 125-133: the row dict; **tag_status is merged last
RowOf(res, tag_status) ==
    tag_status @@
    [Arn          |-> Get(res, "Arn", NoneVal),
     Service      |-> Get(res, "Service", "N/A"),
     ResourceType |-> Get(res, "ResourceType", "N/A"),
     Creator      |-> Get(res, "Creator", "N/A"),
     EventName    |-> Get(res, "EventName", "N/A"),
     EventTime    |-> Get(res, "EventTime", "N/A")]

\* lines 123-125: categorized[region].append(row), creating the list first
AppendRow(acc, region, row) ==
    IF \E i \in DOMAIN acc : acc[i].region = region
    THEN [i \in DOMAIN acc |->
            IF acc[i].region = region
            THEN [acc[i] EXCEPT !.rows = Append(@, row)] ELSE acc[i]]
    ELSE Append(acc, [region |-> region, rows |-> <<row>>])

RECURSIVE CategorizeFrom(_, _)
\* the loop of line 113 over the remaining records rs
CategorizeFrom(rs, acc) ==
    IF rs = <<>> THEN Return(acc)
    ELSE LET res == Head(rs)
             st  == evaluate_tag_status(res)
         IN  IF st.raised THEN Raised
             ELSE CategorizeFrom(Tail(rs),
                                 AppendRow(acc, RegionOf(res), RowOf(res, st.value)))

categorize_by_region_with_tags(rs) == CategorizeFrom(rs, <<>>)

-----------------------------------------------------------------------------
(* generate_excel_report, lines 138-164.  The workbook is the sequence of  *)
(* its sheets, each with a title, its rows and its column widths.          *)

MaxColumnWidth == 80

\* line 147
Headers ==
    <<"Resource ARN", "Service", "Resource Type", "Creator", "EventName", "EventTime">>
    \o REQUIRED_TAGS

\* lines 151-154
SheetRow(res) ==
    <<res["Arn"], res["Service"], res["ResourceType"],
      res["Creator"], res["EventName"], res["EventTime"]>>
    \o [i \in DOMAIN REQUIRED_TAGS |-> res[REQUIRED_TAGS[i]]]

\* len(str(cell.value)); str(None) is "None"
CellLen(v) == IF v = NoneVal THEN 4 ELSE Len(v)

\* lines 157-159
ColumnWidth(rows, c) ==
    LET length == CHOOSE n \in {CellLen(rows[r][c]) : r \in DOMAIN rows} :
                      \A r \in DOMAIN rows : CellLen(rows[r][c]) <= n
    IN  IF length + 2 < MaxColumnWidth THEN length + 2 ELSE MaxColumnWidth

\* lines 144-159, one worksheet
Sheet(entry) ==
    LET rows == <<Headers>> \o [i \in DOMAIN entry.rows |-> SheetRow(entry.rows[i])]
    IN  [title  |-> entry.region,
         rows   |-> rows,
         widths |-> [c \in DOMAIN Headers |-> ColumnWidth(rows, c)]]

generate_excel_report(grouped_resources) ==
    [i \in DOMAIN grouped_resources |-> Sheet(grouped_resources[i])]

-----------------------------------------------------------------------------
(* get_creator_from_cloudtrail, lines 16-37.  lk is what the audit trail   *)
(* does on this call: [client |-> "raise"] when boto3.client raises,       *)
(* otherwise [client |-> "ok", lookup |-> the result of lookup_events].    *)

UnknownTriple == <<"Unknown", "Unknown", "Unknown">>

\* line 27
MaxResults == 5

\* line 47: the lookup window is the last 30 days
LookbackDays == 30

\* line 21; arn is a str
ResourceName(arn) ==
    IF StrContains(arn, "/") THEN LastSegment(arn, "/") ELSE LastSegment(arn, ":")

\* lookup_events is reached: the client exists and line 21 did not raise
LookupIssued(arn, lk) == lk.client = "ok" /\ arn # NoneVal

get_creator_from_cloudtrail(arn, lk) ==
    IF lk.client = "raise" THEN Raised             \* line 18, outside the try
    ELSE IF arn = NoneVal THEN Return(UnknownTriple)    \* TypeError at line 21
    ELSE IF lk.lookup.raised THEN Return(UnknownTriple) \* lines 35-37
    ELSE LET events == Get(lk.lookup.value, "Events", <<>>)
         IN  IF events # <<>>
             THEN Return(<<Get(events[1], "Username", "Unknown"),
                           Get(events[1], "EventName", "Unknown"),
                           Get(events[1], "EventTime", "Unknown")>>)
             ELSE Return(UnknownTriple)

-----------------------------------------------------------------------------
(* fetch_resources_from_regions, lines 41-93: pure parts *)

EmptyList == [kind |-> "list", val |-> <<>>]

\* lines 69-86: the record appended for one discovered resource
MakeRecord(resource, region, creator) ==
    [Arn          |-> Get(resource, "Arn", NoneVal),
     Region       |-> region,
     Service      |-> Get(resource, "Service", "N/A"),
     ResourceType |-> Get(resource, "ResourceType", "N/A"),
     Creator      |-> creator[1],
     EventName    |-> creator[2],
     EventTime    |-> Str(creator[3]),
     Tags         |-> Get(resource, "Properties", EmptyList)]

\* lines 60-61: a view is [isdict |-> FALSE, str |-> the ARN string] or
\* [isdict |-> TRUE, dict |-> a dict]
ViewArnOf(first_view) ==
    IF first_view.isdict THEN Get(first_view.dict, "ViewArn", NoneVal)
    ELSE first_view.str

AfterBreak(i) == Len(REGIONS) + 1

\* line 58: `continue` in iteration i of the loop of line 49 goes on with
\* iteration i + 1
AfterContinue(i) == i + 1

-----------------------------------------------------------------------------
(* What the remote services can answer *)

Wrap(k, v) == [Data |-> [Key |-> k, Value |-> v]]

ListOf(items) == [kind |-> "list", val |-> items]

\* resources the discovery source can report (search, "Resources")
RawResources ==
    { [Arn |-> "s:p/A", Service |-> "ec2", ResourceType |-> "ec2:instance",
       Properties |-> ListOf(<<Wrap("owner", "alice"), Wrap("vendor", "")>>)],
      [Arn |-> "s:p:B", Properties |-> ListOf(<<>>)],
      [Service |-> "s3"],
      [Arn |-> "C", Properties |-> ListOf(<<[Data |-> [Key |-> "owner"]]>>)] }

DiscoveryErrors == {"AccessDeniedException", "EndpointConnectionError"}

\* list_views: a response dict, with or without "Views"
ViewResponses ==
    { <<>>,
      [Views |-> <<>>],
      [Views |-> <<[isdict |-> FALSE, str |-> "view/1"]>>],
      [Views |-> <<[isdict |-> TRUE, dict |-> [ViewArn |-> "view/1"]]>>] }

\* a page of the search paginator holding n resources
PagesOfLen(n) == [1..n -> RawResources]

AuditEvents ==
    <<[Username |-> "alice", EventName |-> "RunInstances",
       EventTime |-> "datetime(2026,10,1,12,0,tzinfo=utc)"],
      [EventName |-> "CreateBucket"]>>

\* what the audit trail does on one get_creator_from_cloudtrail call
LookupOutcomes ==
    { [client |-> "raise"],
      [client |-> "ok", lookup |-> Raised],
      [client |-> "ok", lookup |-> Return([Events |-> <<>>])],
      [client |-> "ok", lookup |-> Return([Events |-> <<AuditEvents[1]>>])],
      [client |-> "ok", lookup |-> Return([Events |-> <<AuditEvents[2], AuditEvents[1]>>])] }

\* datetime.now().strftime("%Y-%m-%d-%H-%M-%S") at line 195
Clock == {"2026-10-30-04-00-00", "2026-10-30-04-00-01"}

\* line 196
FileName(current_time) == "tag-compliance-report-" \o current_time \o ".xlsx"

\* line 175
XlsxContentType == "application/vnd.openxmlformats-officedocument.spreadsheetml.sheet"

UploadOutcomes == {"client_raise", "put_raise", "ok"}

-----------------------------------------------------------------------------
(* lambda_handler, lines 183-202, and the functions it calls, step by step *)

Msg(m) == [msg |-> m]

Last(s) == s[Len(s)]

Idle == /\ tagInput = <<>> /\ tagResult = <<>>
        /\ groupInput = <<>> /\ groupResult = <<>>

Init ==
    /\ pc = "start"
    /\ ri = 1
    /\ pageNo = 0
    /\ view_arn = NoneVal
    /\ more = FALSE
    /\ pending = <<>>
    /\ all_resources = <<>>
    /\ resources = <<>>
    /\ categorized = <<>>
    /\ excel_report = <<>>
    /\ bucket = {}
    /\ calls = <<>>
    /\ log = <<>>
    /\ trace = <<>>
    /\ failed = [region |-> 0, error |-> "none"]
    /\ Idle

\* lines 184-187 and 42-47: the handler starts and enters the region loop
Start ==
    /\ pc = "start"
    /\ log' = Append(log, Msg("ExecutionStarted"))
    /\ pc' = "list_views"
    /\ UNCHANGED <<ri, pageNo, view_arn, more, pending, all_resources, resources,
                   categorized, excel_report, bucket, calls, trace, failed,
                   tagInput, tagResult, groupInput, groupResult>>

\* lines 91-93 followed by 188-190: an exception inside fetch is caught, fetch
\* returns [] and the handler goes on with that result
FetchRaises(error, newCalls, newLog, newTrace) ==
    /\ failed' = [region |-> ri, error |-> error]
    /\ trace' = newTrace
    /\ calls' = newCalls
    /\ log' = Append(newLog, [msg |-> "ErrorFetching", error |-> error])
    /\ resources' = <<>>
    /\ pc' = "fetched"
    /\ UNCHANGED <<ri, pageNo, view_arn, more, pending, all_resources,
                   categorized, excel_report, bucket,
                   tagInput, tagResult, groupInput, groupResult>>

\* lines 49-62: one iteration of the region loop up to the paginator
ListViews ==
    /\ pc = "list_views"
    /\ ri <= Len(REGIONS)
    /\ LET region  == REGIONS[ri]
           called  == Append(calls, [api |-> "list_views", region |-> region])
           printed == Append(log, [msg |-> "Searching", region |-> region])
       IN  \/ \E e \in DiscoveryErrors : FetchRaises(e, called, printed, trace)
           \/ \E view_response \in ViewResponses :
                 LET views == Get(view_response, "Views", <<>>)
                 IN  /\ calls' = called
                     /\ trace' = Append(trace, [region |-> ri, views |-> Len(views)])
                     /\ IF views = <<>>
                        THEN /\ log' = Append(printed, [msg |-> "NoViews", region |-> region])
                             /\ ri' = AfterContinue(ri)
                             /\ pc' = "list_views"
                             /\ UNCHANGED view_arn
                        ELSE /\ view_arn' = ViewArnOf(views[1])
                             /\ log' = Append(printed, [msg |-> "UsingViewArn", region |-> region])
                             /\ pc' = "search"
                             /\ UNCHANGED ri
                     /\ pageNo' = 0
                     /\ UNCHANGED <<more, pending, all_resources, resources,
                                    categorized, excel_report, bucket, failed,
                                    tagInput, tagResult, groupInput, groupResult>>

\* the current region's pages are exhausted: on to the next region
RegionDone ==
    /\ ri' = ri + 1
    /\ pc' = "list_views"

\* lines 64-68: the paginator requests the next page of the search
SearchPage ==
    /\ pc = "search"
    /\ LET region == REGIONS[ri]
           called == Append(calls, [api |-> "search", region |-> region,
                                    QueryString |-> QUERY_FILTER, ViewArn |-> view_arn])
       IN  \/ \E e \in DiscoveryErrors : FetchRaises(e, called, log, trace)
           \/ /\ pageNo < MaxPages
              /\ \E n \in 0..(MaxResources - Len(all_resources)), token \in BOOLEAN :
                   \E page \in PagesOfLen(n) :
                        /\ calls' = called
                        /\ pageNo' = pageNo + 1
                        /\ more' = token
                        /\ pending' = page
                        /\ IF page # <<>> THEN pc' = "resource" /\ UNCHANGED ri
                           ELSE IF token THEN pc' = "search" /\ UNCHANGED ri
                           ELSE RegionDone
                        /\ UNCHANGED <<view_arn, all_resources, resources, categorized,
                                       excel_report, bucket, log, trace, failed,
                                       tagInput, tagResult, groupInput, groupResult>>

\* lines 68-86: one resource of the page is enriched and appended
ProcessResource ==
    /\ pc = "resource"
    /\ pending # <<>>
    /\ LET resource == Head(pending)
           region   == REGIONS[ri]
           arn      == Get(resource, "Arn", NoneVal)
       IN  \E lk \in LookupOutcomes :
             LET creator == get_creator_from_cloudtrail(arn, lk)
                 called  == IF LookupIssued(arn, lk)
                            THEN Append(calls, [api |-> "lookup_events", region |-> region,
                                                ResourceName |-> ResourceName(arn),
                                                WindowDays |-> LookbackDays,
                                                MaxResults |-> MaxResults])
                            ELSE calls
                 asked   == Append(trace, [region |-> ri, resource |-> resource,
                                           lookup |-> lk])
             IN  IF creator.raised
                 THEN FetchRaises("CloudTrailClientError", called, log, asked)
                 ELSE /\ calls' = called
                      /\ log' = IF arn = NoneVal \/ lk.lookup.raised
                                THEN Append(log, [msg |-> "CloudTrailLookupFailed", arn |-> arn])
                                ELSE log
                      /\ all_resources' =
                            Append(all_resources, MakeRecord(resource, region, creator.value))
                      /\ trace' = asked
                      /\ pending' = Tail(pending)
                      /\ IF Tail(pending) # <<>> THEN pc' = "resource" /\ UNCHANGED ri
                         ELSE IF more THEN pc' = "search" /\ UNCHANGED ri
                         ELSE RegionDone
                      /\ UNCHANGED <<pageNo, view_arn, more, resources, categorized,
                                     excel_report, bucket, failed,
                                     tagInput, tagResult, groupInput, groupResult>>

\* lines 88-89: the region loop is over, fetch returns all_resources
FetchReturn ==
    /\ pc = "list_views"
    /\ ri > Len(REGIONS)
    /\ log' = Append(log, [msg |-> "TotalFetched", n |-> Len(all_resources)])
    /\ resources' = all_resources
    /\ pc' = "fetched"
    /\ UNCHANGED <<ri, pageNo, view_arn, more, pending, all_resources, categorized,
                   excel_report, bucket, calls, trace, failed,
                   tagInput, tagResult, groupInput, groupResult>>

\* lines 188-190
HandlerCheck ==
    /\ pc = "fetched"
    /\ IF resources = <<>>
       THEN /\ log' = Append(log, Msg("NoResourcesFound"))
            /\ pc' = "done"
       ELSE /\ pc' = "categorize"
            /\ UNCHANGED log
    /\ UNCHANGED <<ri, pageNo, view_arn, more, pending, all_resources, resources,
                   categorized, excel_report, bucket, calls, trace, failed,
                   tagInput, tagResult, groupInput, groupResult>>

\* line 192; an exception is caught at lines 201-202
Categorize ==
    /\ pc = "categorize"
    /\ LET r == categorize_by_region_with_tags(resources)
       IN  IF r.raised
           THEN /\ log' = Append(log, Msg("ErrorDuringExecution"))
                /\ pc' = "done"
                /\ UNCHANGED categorized
           ELSE /\ categorized' = r.value
                /\ pc' = "render"
                /\ UNCHANGED log
    /\ UNCHANGED <<ri, pageNo, view_arn, more, pending, all_resources, resources,
                   excel_report, bucket, calls, trace, failed,
                   tagInput, tagResult, groupInput, groupResult>>

\* line 193
GenerateExcel ==
    /\ pc = "render"
    /\ excel_report' = generate_excel_report(categorized)
    /\ pc' = "upload"
    /\ UNCHANGED <<ri, pageNo, view_arn, more, pending, all_resources, resources,
                   categorized, bucket, calls, log, trace, failed,
                   tagInput, tagResult, groupInput, groupResult>>

\* lines 195-199 and upload_excel_to_s3, lines 168-179
Upload ==
    /\ pc = "upload"
    /\ \E current_time \in Clock, outcome \in UploadOutcomes :
         LET file_name == FileName(current_time)
             put       == [api |-> "put_object", Bucket |-> BUCKET_NAME, Key |-> file_name,
                           ContentType |-> XlsxContentType]
         IN  CASE outcome = "client_raise" ->     \* line 169, outside the try
                    /\ log' = Append(log, Msg("ErrorDuringExecution"))
                    /\ UNCHANGED <<calls, bucket>>
               [] outcome = "put_raise" ->
                    /\ calls' = Append(calls, put)
                    /\ log' = log \o <<Msg("FailedToUpload"),
                                        [msg |-> "GeneratedAndUploaded", file |-> file_name]>>
                    /\ UNCHANGED bucket
               [] outcome = "ok" ->
                    /\ calls' = Append(calls, put)
                    /\ bucket' = bucket \cup {[Key |-> file_name, Body |-> excel_report]}
                    /\ log' = log \o <<[msg |-> "ReportUploaded", file |-> file_name],
                                        [msg |-> "GeneratedAndUploaded", file |-> file_name]>>
    /\ pc' = "done"
    /\ UNCHANGED <<ri, pageNo, view_arn, more, pending, all_resources, resources,
                   categorized, excel_report, trace, failed,
                   tagInput, tagResult, groupInput, groupResult>>

Next ==
    \/ Start
    \/ ListViews
    \/ SearchPage
    \/ ProcessResource
    \/ FetchReturn
    \/ HandlerCheck
    \/ Categorize
    \/ GenerateExcel
    \/ Upload

Spec == Init /\ [][Next]_vars

-----------------------------------------------------------------------------
(* evaluate_tag_status on its own: every bounded input, one application *)

Wrappers ==
    { Wrap("owner", "alice"), Wrap("owner", ""), Wrap("vendor", "acme"),
      [Data |-> [Key |-> "owner"]], [Data |-> [Value |-> "x"]], [Name |-> "tags"] }

FlatKeys == {"owner", "vendor", "MetaData"}

FlatValues == {"alice", ""}

FlatMaps == UNION {[K -> FlatValues] : K \in SUBSET FlatKeys}

WrappedLists == UNION {[1..n -> Wrappers] : n \in 0..MaxTags}

TagInputs ==
    {[Arn |-> "s:p/A"], [Arn |-> "s:p/A", Tags |-> [kind |-> "None"]]}
    \cup {[Arn |-> "s:p/A", Tags |-> ListOf(l)] : l \in WrappedLists}
    \cup {[Arn |-> "s:p/A", Tags |-> [kind |-> "dict", val |-> m]] : m \in FlatMaps}

PipelineIdle ==
    /\ ri = 1 /\ pageNo = 0 /\ view_arn = NoneVal /\ more = FALSE
    /\ pending = <<>> /\ all_resources = <<>> /\ resources = <<>>
    /\ categorized = <<>> /\ excel_report = <<>> /\ bucket = {}
    /\ calls = <<>> /\ log = <<>> /\ trace = <<>>
    /\ failed = [region |-> 0, error |-> "none"]

InitTags ==
    /\ pc = "evaluate"
    /\ tagInput \in TagInputs
    /\ tagResult = <<>>
    /\ groupInput = <<>> /\ groupResult = <<>>
    /\ PipelineIdle

EvaluateTags ==
    /\ pc = "evaluate"
    /\ tagResult' = evaluate_tag_status(tagInput)
    /\ pc' = "evaluated"
    /\ UNCHANGED <<pipelineVars, tagInput, groupInput, groupResult>>

NextTags == EvaluateTags

SpecTags == InitTags /\ [][NextTags]_vars

-----------------------------------------------------------------------------
(* categorize_by_region_with_tags on its own *)

GroupRecords ==
    { [Arn |-> "s:p/A", Region |-> "ap-northeast-1", Service |-> "ec2",
       ResourceType |-> "ec2:instance", Creator |-> "alice",
       EventName |-> "RunInstances", EventTime |-> "2026-10-01 12:00:00+00:00",
       Tags |-> ListOf(<<Wrap("owner", "alice")>>)],
      [Arn |-> "s:p:B", Region |-> "ap-south-1"],
      [Arn |-> "s:p/A", Region |-> "ap-south-1", Tags |-> ListOf(<<>>)],
      [Arn |-> "C", Service |-> "s3"],
      [Arn |-> "E", Region |-> NoneVal],
      [Arn |-> "D", Region |-> "ap-northeast-1",
       Tags |-> ListOf(<<[Data |-> [Key |-> "owner"]]>>)] }

InitGroup ==
    /\ pc = "group"
    /\ groupInput \in UNION {[1..n -> GroupRecords] : n \in 0..MaxRecords}
    /\ groupResult = <<>>
    /\ tagInput = <<>> /\ tagResult = <<>>
    /\ PipelineIdle

CategorizeRecords ==
    /\ pc = "group"
    /\ groupResult' = categorize_by_region_with_tags(groupInput)
    /\ pc' = "grouped"
    /\ UNCHANGED <<pipelineVars, tagInput, tagResult, groupInput>>

NextGroup == CategorizeRecords

SpecGroup == InitGroup /\ [][NextGroup]_vars

-----------------------------------------------------------------------------
(* Vocabulary of the properties *)

\* fetch_resources_from_regions has returned to lambda_handler
Fetched == pc \in {"fetched", "categorize", "render", "upload", "done"}

\* the entries of trace that are discovered resources, in discovery order
Discovered == SelectSeq(trace, LAMBDA e : "resource" \in DOMAIN e)

\* the entries of trace that are list_views answers
Listed == SelectSeq(trace, LAMBDA e : "views" \in DOMAIN e)

IdOf(resource) == Get(resource, "Arn", NoneVal)

\* <<identifier, region>> of each element of a sequence of collected records
Ids(records) == [i \in DOMAIN records |-> <<records[i].Arn, records[i].Region>>]

\* the same for entries of trace
DiscoveredIds(entries) ==
    [i \in DOMAIN entries |-> <<IdOf(entries[i].resource), REGIONS[entries[i].region]>>]

CallsOf(api) == SelectSeq(calls, LAMBDA c : c.api = api)

DiscoveryFailed == failed.error \in DiscoveryErrors

\* the audit-trail lookup of a discovered resource failed
LookupFailed(e) ==
    \/ e.lookup.client = "raise"
    \/ IdOf(e.resource) = NoneVal
    \/ e.lookup.lookup.raised

\* the put of the artifact was attempted and stored nothing
PutFailed == CallsOf("put_object") # <<>> /\ bucket = {}

Reported(m) == \E i \in DOMAIN log : log[i].msg = m

-----------------------------------------------------------------------------
(* Properties of the pipeline, checked under Spec *)

\* C1: when the discovery call of one partition raises, fetch still returns
\* the records collected from every other partition, and the handler goes on
\* to upload a report of them.
C1_PartitionFailureIsolated ==
    (Fetched /\ DiscoveryFailed) =>
        LET others == SelectSeq(Discovered, LAMBDA e : e.region # failed.region)
            kept   == SelectSeq(resources, LAMBDA r : r.Region # REGIONS[failed.region])
        IN  /\ Ids(kept) = DiscoveredIds(others)
            /\ (pc = "done" /\ others # <<>>) => CallsOf("put_object") # <<>>

\* C2: the list fetch returns holds each identifier at most once: no
\* identifier reported by two partitions is in it twice.
C2_IdentifiersUnique ==
    (Fetched /\ failed.region = 0) =>
        \A i, j \in DOMAIN resources :
            (resources[i].Region # resources[j].Region /\ resources[i].Arn # NoneVal)
                => resources[i].Arn # resources[j].Arn

\* C3: a failing audit-trail lookup for one record leaves that record in the
\* result with the sentinel in its three creator fields, and leaves every
\* other record as its own discovery and lookup answers make it.
C3_EnrichmentFailureIsolated ==
    (Fetched /\ ~DiscoveryFailed) =>
        /\ Len(resources) = Len(Discovered)
        /\ \A i \in DOMAIN resources :
              IF LookupFailed(Discovered[i])
              THEN /\ resources[i].Arn = IdOf(Discovered[i].resource)
                   /\ <<resources[i].Creator, resources[i].EventName,
                        resources[i].EventTime>> = UnknownTriple
              ELSE resources[i] =
                     MakeRecord(Discovered[i].resource, REGIONS[Discovered[i].region],
                                get_creator_from_cloudtrail(IdOf(Discovered[i].resource),
                                                            Discovered[i].lookup).value)

\* C7: when the primary discovery source reports permission-denied in a
\* partition, a fallback discovery source is called for that partition and a
\* report is uploaded.
C7_PermissionDeniedFallsBack ==
    (pc = "done" /\ failed.error = "AccessDeniedException") =>
        /\ \E i \in DOMAIN calls :
              /\ calls[i].api \notin {"list_views", "search", "lookup_events", "put_object"}
              /\ calls[i].region = REGIONS[failed.region]
        /\ CallsOf("put_object") # <<>>

\* C8: a run in which discovery returns no record in any partition ends with
\* "no resources found", no artifact and no upload; a run in which discovery
\* fails with an error ends with a different terminal status.
C8_NoResourcesIsDistinctExit ==
    pc = "done" =>
        /\ (failed.region = 0 /\ Discovered = <<>>) =>
              /\ Last(log).msg = "NoResourcesFound"
              /\ excel_report = <<>>
              /\ CallsOf("put_object") = <<>>
        /\ DiscoveryFailed => Last(log).msg # "NoResourcesFound"

\* C9: when the put of the artifact fails, exactly one put was attempted and
\* the run does not report the artifact as generated and uploaded.
C9_UploadFailureReported ==
    (pc = "done" /\ PutFailed) =>
        /\ Len(CallsOf("put_object")) = 1
        /\ ~Reported("GeneratedAndUploaded")

\* C10: a partition whose list_views returns no view is skipped: no search and
\* no audit-trail lookup is issued for it, the records collected so far are
\* all kept, and the later partitions are still listed, in configured order.
C10_EmptyViewsSkipsPartition ==
    LET listed == CallsOf("list_views")
    IN  /\ \A i \in DOMAIN Listed :
              Listed[i].views = 0 =>
                  \A j \in DOMAIN calls :
                      calls[j].api \in {"search", "lookup_events"} =>
                          calls[j].region # REGIONS[Listed[i].region]
        /\ failed.region = 0 =>
              /\ Ids(all_resources) = DiscoveredIds(Discovered)
              /\ Fetched => resources = all_resources
        /\ Len(listed) <= Len(REGIONS)
        /\ \A i \in DOMAIN listed : listed[i].region = REGIONS[i]
        /\ (pc = "list_views" /\ failed.region = 0) => Len(listed) = ri - 1
        /\ (Fetched /\ failed.region = 0) => Len(listed) = Len(REGIONS)

\* C10 witness: the first partition delivered a record, the second had no view
\* and was skipped, and fetch returned the record of the first.
C10_Witness ==
    /\ pc = "fetched"
    /\ failed.region = 0
    /\ \E i \in DOMAIN Listed : Listed[i].region = 2 /\ Listed[i].views = 0
    /\ resources # <<>>
    /\ \A i \in DOMAIN resources : resources[i].Region = REGIONS[1]

-----------------------------------------------------------------------------
(* Properties of evaluate_tag_status, checked under SpecTags *)

\* the tag shapes the wrapped-list contract names: absent, null, or a list
WrappedShape(resource) == TagsOf(resource).kind \in {"list", "None"}

\* key k is found among the wrapped tags with a non-empty value
FoundNonEmpty(resource, k) ==
    /\ TagsOf(resource).kind = "list"
    /\ \E i \in DOMAIN TagsOf(resource).val :
          LET t == TagsOf(resource).val[i]
          IN  /\ "Data" \in DOMAIN t
              /\ Get(t["Data"], "Key", NoneVal) = k
              /\ Get(t["Data"], "Value", "") # ""

RECURSIVE WrappedFrom(_, _)
\* the wrapped list [{"Data": {"Key": k, "Value": v}}] of the items of m whose
\* keys are in ks
WrappedFrom(m, ks) ==
    IF ks = {} THEN <<>>
    ELSE LET k == CHOOSE x \in ks : TRUE
         IN  <<Wrap(k, m[k])>> \o WrappedFrom(m, ks \ {k})

\* C4: on an absent, null, empty or wrapped-list Tags field evaluate_tag_status
\* returns without raising a verdict over exactly REQUIRED_TAGS, in which a key
\* is Present exactly when it is found among the tags with a non-empty value.
C4_EvaluatorTotalOnWrappedLists ==
    (pc = "evaluated" /\ WrappedShape(tagInput)) =>
        /\ ~tagResult.raised
        /\ DOMAIN tagResult.value = Range(REQUIRED_TAGS)
        /\ \A k \in Range(REQUIRED_TAGS) :
              tagResult.value[k] = IF FoundNonEmpty(tagInput, k) THEN "Present" ELSE "Missing"

\* C5: on a flat mapping M evaluate_tag_status returns what it returns on the
\* wrapped list of M's items.
C5_FlatMappingSameVerdict ==
    (pc = "evaluated" /\ TagsOf(tagInput).kind = "dict") =>
        LET m == TagsOf(tagInput).val
        IN  tagResult =
              evaluate_tag_status([Arn |-> tagInput.Arn,
                                   Tags |-> ListOf(WrappedFrom(m, DOMAIN m))])

-----------------------------------------------------------------------------
(* Properties of categorize_by_region_with_tags *)

\* the record has a derivable partition: a Region that is not null
HasRegion(res) == "Region" \in DOMAIN res /\ res["Region"] # NoneVal

\* the identifiers of the rows of every group, group after group
GroupedIds(groups) ==
    [i \in DOMAIN groups |-> [j \in DOMAIN groups[i].rows |-> groups[i].rows[j].Arn]]

\* the identifiers of the records of rs whose Region is key, in input order
IdsWithRegion(rs, key) ==
    LET sel == SelectSeq(rs, LAMBDA r : HasRegion(r) /\ r["Region"] = key)
    IN  [i \in DOMAIN sel |-> sel[i].Arn]

\* groups is a partition of the records of rs that have a Region: each of
\* them is in the group of its Region, in input order, no group has another
\* key or another record, and no two groups have the same key.
GroupsPartition(rs, groups) ==
    /\ \A k \in DOMAIN rs :
          HasRegion(rs[k]) => \E i \in DOMAIN groups : groups[i].region = rs[k]["Region"]
    /\ \A i \in DOMAIN groups :
          /\ \E k \in DOMAIN rs : HasRegion(rs[k]) /\ rs[k]["Region"] = groups[i].region
          /\ GroupedIds(groups)[i] = IdsWithRegion(rs, groups[i].region)
    /\ \A i, j \in DOMAIN groups : groups[i].region = groups[j].region => i = j

\* C6, checked under Spec: once the handler is past line 192, the groups it
\* holds are a partition of the records fetch returned: every record is in
\* exactly one group, that of its Region, in collector-emitted order.
C6_GroupingIsPartition ==
    (pc \in {"render", "upload", "done"} /\ resources # <<>>) =>
        GroupsPartition(resources, categorized)

\* C6 for the function alone, checked under SpecGroup on lists that also
\* hold records without a Region, which fetch never builds (line 79): when
\* the function returns, its groups are a partition of the records that
\* have a Region, and a record without one is in no group.
C6_GroupingExcludesUnknown ==
    (pc = "grouped" /\ ~groupResult.raised) =>
        GroupsPartition(groupInput, groupResult.value)

====
